---- MODULE Spec2Model ----
(***************************************************************************)
(* Model of the migration scripts of auto-sdk-java:                        *)
(*   scripts/convert.py            the Java / POM rewriter                 *)
(*   scripts/appium-conversion.py  the capability JSON rewriter            *)
(*                                                                         *)
(* A text is a sequence of atoms.  An atom is a string of one or more      *)
(* characters that the rewrites never cut: "\n" and " " are atoms of one   *)
(* character, "import" is the atom of six characters that line[:6] tests,  *)
(* "@Locate(" is the atom every locator pattern starts with.  Python's     *)
(* str and re operations are modelled on these sequences.                  *)
(***************************************************************************)
EXTENDS Integers, Sequences, FiniteSets, TLC

(***************************************************************************)
(* Python str / list primitives on atom sequences                          *)
(***************************************************************************)
NL == "\n"

\* str.isspace of a one-character atom: what \s matches and rstrip() removes
IsSpace(a) == a \in {" ", "\t", "\n", "\r"}

\* what the regular expression "." matches: one character, not a newline
AnyChar(a) == Len(a) = 1 /\ a # NL

\* s[i:i+len(p)] == p   (i is 1-based)
MatchesAt(s, i, p) ==
    /\ i >= 1
    /\ i + Len(p) - 1 <= Len(s)
    /\ \A k \in 1..Len(p) : s[i + k - 1] = p[k]

\* p in s
Contains(s, p) ==
    \E i \in 1..(Len(s) - Len(p) + 1) : SubSeq(s, i, i + Len(p) - 1) = p

\* s.endswith(p)
EndsWith(s, p) ==
    /\ Len(p) <= Len(s)
    /\ SubSeq(s, Len(s) - Len(p) + 1, Len(s)) = p

\* s.replace(p, r): leftmost, non-overlapping, every occurrence
RECURSIVE str_replace_from(_, _, _, _)
str_replace_from(s, p, r, i) ==
    IF i > Len(s) THEN << >>
    ELSE IF MatchesAt(s, i, p)
         THEN r \o str_replace_from(s, p, r, i + Len(p))
         ELSE << s[i] >> \o str_replace_from(s, p, r, i + 1)

str_replace(s, p, r) == str_replace_from(s, p, r, 1)

\* s.split('\n'): the lines of s, without their newlines
RECURSIVE split_from(_, _, _)
split_from(s, i, cur) ==
    IF i > Len(s) THEN << cur >>
    ELSE IF s[i] = NL
         THEN << cur >> \o split_from(s, i + 1, << >>)
         ELSE split_from(s, i + 1, Append(cur, s[i]))

split(s) == split_from(s, 1, << >>)

\* '\n'.join(lines)
RECURSIVE join(_)
join(lines) ==
    IF Len(lines) = 0 THEN << >>
    ELSE IF Len(lines) = 1 THEN lines[1]
         ELSE lines[1] \o << NL >> \o join(Tail(lines))

\* line.rstrip()
RECURSIVE rstrip(_)
rstrip(line) ==
    IF Len(line) > 0 /\ IsSpace(line[Len(line)])
    THEN rstrip(SubSeq(line, 1, Len(line) - 1))
    ELSE line

\* line[:6] == "import"
IsImportLine(line) == Len(line) > 0 /\ line[1] = "import"

\* list.insert(i, x) for 0-based i >= 0: before position i, or at the end
list_insert(lst, i, x) ==
    IF i >= Len(lst) THEN Append(lst, x)
    ELSE SubSeq(lst, 1, i) \o << x >> \o SubSeq(lst, i + 1, Len(lst))

(***************************************************************************)
(* scripts/convert.py: the Java rewrite passes                             *)
(***************************************************************************)

\* One atom of a regular expression against one atom of the text: "." is the
\* wildcard, every other atom of the patterns below is literal text.
RegexAtom(pa, a) == IF pa = "." THEN AnyChar(a) ELSE pa = a

\* a pattern of literal atoms and "." matches s at i
RegexMatchesAt(s, i, pat) ==
    /\ i >= 1
    /\ i + Len(pat) - 1 <= Len(s)
    /\ \A k \in 1..Len(pat) : RegexAtom(pat[k], s[i + k - 1])

\* re.sub(pat, repl, s) for such a pattern
RECURSIVE re_sub_from(_, _, _, _)
re_sub_from(pat, repl, s, i) ==
    IF i > Len(s) THEN << >>
    ELSE IF RegexMatchesAt(s, i, pat)
         THEN repl \o re_sub_from(pat, repl, s, i + Len(pat))
         ELSE << s[i] >> \o re_sub_from(pat, repl, s, i + 1)

\* (a text the pattern does not match anywhere is returned as it is)
re_sub(pat, repl, s) ==
    IF \E i \in 1..Len(s) : RegexMatchesAt(s, i, pat)
    THEN re_sub_from(pat, repl, s, 1)
    ELSE s

\* the (old_import, new_import) table of replace_imports, in declared order
imports ==
    <<
      << <<"com", ".", "applause", ".", "auto", ".", "pageobjectmodel", ".", "elements", ".", "BaseElement">>,
         <<"com", ".", "applause", ".", "auto", ".", "pageobjectmodel", ".", "base", ".", "BaseElement">> >>,
      << <<"com", ".", "applause", ".", "allure", ".", "appenders">>,
         <<"com", ".", "applause", ".", "auto", ".", "helpers", ".", "allure", ".", "appenders">> >>,
      << <<"com", ".", "applause", ".", "allure">>,
         <<"com", ".", "applause", ".", "auto", ".", "helpers", ".", "allure">> >>,
      << <<"com", ".", "applause", ".", "email">>,
         <<"com", ".", "applause", ".", "auto", ".", "helpers", ".", "email">> >>,
      << <<"com", ".", "applause", ".", "google">>,
         <<"com", ".", "applause", ".", "auto", ".", "helpers", ".", "google">> >>,
      << <<"com", ".", "applause", ".", "http", ".", "mapping">>,
         <<"com", ".", "applause", ".", "auto", ".", "helpers", ".", "http", ".", "mapping">> >>,
      << <<"com", ".", "applause", ".", "http", ".", "restassured", ".", "client">>,
         <<"com", ".", "applause", ".", "auto", ".", "helpers", ".", "http", ".", "restassured", ".", "client">> >>,
      << <<"com", ".", "applause", ".", "http", ".", "restassured">>,
         <<"com", ".", "applause", ".", "auto", ".", "helpers", ".", "http", ".", "restassured">> >>,
      << <<"com", ".", "applause", ".", "jira", ".", "annotations", ".", "scanner">>,
         <<"com", ".", "applause", ".", "auto", ".", "helpers", ".", "jira", ".", "annotations", ".", "scanner">> >>,
      << <<"com", ".", "applause", ".", "jira", ".", "annotations">>,
         <<"com", ".", "applause", ".", "auto", ".", "helpers", ".", "jira", ".", "annotations">> >>,
      << <<"com", ".", "applause", ".", "jira", ".", "clients", ".", "modules", ".", "jira">>,
         <<"com", ".", "applause", ".", "auto", ".", "helpers", ".", "jira", ".", "clients", ".", "modules", ".", "jira">> >>,
      << <<"com", ".", "applause", ".", "jira", ".", "clients", ".", "modules", ".", "xray">>,
         <<"com", ".", "applause", ".", "auto", ".", "helpers", ".", "jira", ".", "clients", ".", "modules", ".", "xray">> >>,
      << <<"com", ".", "applause", ".", "jira", ".", "clients">>,
         <<"com", ".", "applause", ".", "auto", ".", "helpers", ".", "jira", ".", "clients">> >>,
      << <<"com", ".", "applause", ".", "jira", ".", "constants">>,
         <<"com", ".", "applause", ".", "auto", ".", "helpers", ".", "jira", ".", "constants">> >>,
      << <<"com", ".", "applause", ".", "jira", ".", "dto", ".", "jql">>,
         <<"com", ".", "applause", ".", "auto", ".", "helpers", ".", "jira", ".", "dto", ".", "jql">> >>,
      << <<"com", ".", "applause", ".", "jira", ".", "dto", ".", "requestmappers">>,
         <<"com", ".", "applause", ".", "auto", ".", "helpers", ".", "jira", ".", "dto", ".", "requestmappers">> >>,
      << <<"com", ".", "applause", ".", "jira", ".", "dto", ".", "responsemappers", ".", "iteration">>,
         <<"com", ".", "applause", ".", "auto", ".", "helpers", ".", "jira", ".", "dto", ".", "responsemappers", ".", "iteration">> >>,
      << <<"com", ".", "applause", ".", "jira", ".", "dto", ".", "responsemappers", ".", "steps">>,
         <<"com", ".", "applause", ".", "auto", ".", "helpers", ".", "jira", ".", "dto", ".", "responsemappers", ".", "steps">> >>,
      << <<"com", ".", "applause", ".", "jira", ".", "dto", ".", "responsemappers">>,
         <<"com", ".", "applause", ".", "auto", ".", "helpers", ".", "jira", ".", "dto", ".", "responsemappers">> >>,
      << <<"com", ".", "applause", ".", "jira", ".", "dto", ".", "shared">>,
         <<"com", ".", "applause", ".", "auto", ".", "helpers", ".", "jira", ".", "dto", ".", "shared">> >>,
      << <<"com", ".", "applause", ".", "jira", ".", "exceptions">>,
         <<"com", ".", "applause", ".", "auto", ".", "helpers", ".", "jira", ".", "exceptions">> >>,
      << <<"com", ".", "applause", ".", "jira", ".", "helper">>,
         <<"com", ".", "applause", ".", "auto", ".", "helpers", ".", "jira", ".", "helper">> >>,
      << <<"com", ".", "applause", ".", "jira", ".", "listeners">>,
         <<"com", ".", "applause", ".", "auto", ".", "testng", ".", "listeners">> >>,
      << <<"com", ".", "applause", ".", "jira", ".", "restclient">>,
         <<"com", ".", "applause", ".", "auto", ".", "helpers", ".", "jira", ".", "restclient">> >>,
      << <<"com", ".", "applause", ".", "mobile", ".", "deeplinks">>,
         <<"com", ".", "applause", ".", "auto", ".", "helpers", ".", "mobile", ".", "deeplinks">> >>,
      << <<"com", ".", "applause", ".", "mobile", ".", "file_uploading", ".", "SauceLabs">>,
         <<"com", ".", "applause", ".", "auto", ".", "helpers", ".", "mobile", ".", "fileuploading", ".", "saucelabs">> >>,
      << <<"com", ".", "applause", ".", "mobile">>,
         <<"com", ".", "applause", ".", "auto", ".", "helpers", ".", "mobile">> >>,
      << <<"com", ".", "applause", ".", "testdata", ".", "yaml">>,
         <<"com", ".", "applause", ".", "auto", ".", "helpers", ".", "testdata", ".", "yaml">> >>,
      << <<"com", ".", "applause", ".", "testdata">>,
         <<"com", ".", "applause", ".", "auto", ".", "helpers", ".", "testdata">> >>,
      << <<"com", ".", "applause", ".", "util">>,
         <<"com", ".", "applause", ".", "auto", ".", "helpers", ".", "util">> >>,
      << <<"com", ".", "applause", ".", "web">>,
         <<"com", ".", "applause", ".", "auto", ".", "helpers", ".", "web">> >>
    >>

\* for old_import, new_import in imports: contents = re.sub(...)
RECURSIVE sub_imports(_, _)
sub_imports(contents, k) ==
    IF k > Len(imports) THEN contents
    ELSE sub_imports(re_sub(imports[k][1], imports[k][2], contents), k + 1)

\* the deduplication loop of replace_imports: the set holds the lines verbatim
RECURSIVE dedup_lines(_, _, _)
dedup_lines(lines, i, existing_imports) ==
    IF i > Len(lines) THEN << >>
    ELSE IF lines[i] \in existing_imports
         THEN dedup_lines(lines, i + 1, existing_imports)
         ELSE << lines[i] >> \o
              dedup_lines(lines, i + 1,
                          IF IsImportLine(lines[i])
                          THEN existing_imports \cup { lines[i] }
                          ELSE existing_imports)

replace_imports(contents) ==
    join(dedup_lines(split(sub_imports(contents, 1)), 1, {}))

\* The scan of add_import_if_not_present.  i is the 1-based position of the
\* line, so enumerate's index is i - 1.  The membership test is on the line as
\* read; the set and the output hold the right-trimmed line.
RECURSIVE scan_imports(_, _, _, _)
scan_imports(import_statement, lines, i, st) ==
    IF i > Len(lines) THEN st
    ELSE IF lines[i] \in st.existing_imports
         THEN scan_imports(import_statement, lines, i + 1, st)
         ELSE IF IsImportLine(lines[i])
              THEN scan_imports(import_statement, lines, i + 1,
                     [ existing_imports |-> st.existing_imports \cup { rstrip(lines[i]) },
                       last_import |-> i - 1,
                       contains_import |-> st.contains_import
                            \/ EndsWith(rstrip(lines[i]), import_statement),
                       lines_without_duplicates |->
                            Append(st.lines_without_duplicates, rstrip(lines[i])) ])
              ELSE scan_imports(import_statement, lines, i + 1,
                     [ st EXCEPT !.lines_without_duplicates =
                            Append(st.lines_without_duplicates, rstrip(lines[i])) ])

add_import_if_not_present(import_statement, contents) ==
    LET st == scan_imports(import_statement, split(contents), 1,
                  [ existing_imports |-> {}, last_import |-> 1,
                    contains_import |-> FALSE,
                    lines_without_duplicates |-> << >> ])
    IN  join(IF st.contains_import
             THEN st.lines_without_duplicates
             ELSE list_insert(st.lines_without_duplicates, st.last_import,
                              import_statement))

StrategyImport ==
    << "import", " ", "com", ".", "applause", ".", "auto", ".",
       "pageobjectmodel", ".", "base", ".", "Strategy", ";" >>

PageObjectBuilderImport ==
    << "import", " ", "com", ".", "applause", ".", "auto", ".",
       "pageobjectmodel", ".", "builder", ".", "PageObjectBuilder", ";" >>

\* The locators table of fix_locators: the attribute each pattern names and the
\* text that follows "@Locate(" in its replacement.  In the source both end with
\* one more space, which is an atom of its own here.
locators ==
    << << "id =", "using = Strategy.ID, value =" >>,
       << "css =", "using = Strategy.CSS, value =" >>,
       << "xpath =", "using = Strategy.XPATH, value =" >>,
       << "className =", "using = Strategy.CLASSNAME, value =" >>,
       << "name =", "using = Strategy.NAME, value =" >>,
       << "tagName =", "using = Strategy.TAGNAME, value =" >>,
       << "linkText =", "using = Strategy.LINKTEXT, value =" >>,
       << "accessibilityId =", "using = Strategy.ACCESSIBILITYID, value =" >>,
       << "androidUIAutomator =", "using = Strategy.ANDROID_UIAUTOMATOR, value =" >>,
       << "iOSClassChain =", "using = Strategy.IOS_CLASSCHAIN, value =" >>,
       << "iOSNsPredicate =", "using = Strategy.IOS_NSPREDICATE, value =" >>,
       << "appiumClassName =", "using = Strategy.APPIUM_CLASSNAME, value =" >>,
       << "jQuery =", "using = Strategy.JQUERY, value =" >>,
       << "javascript =", "using = Strategy.JAVASCRIPT, value =" >> >>

\* The pattern string itself, as the "in" test of fix_locators reads it: the
\* characters  @Locate\(\s*  followed by the attribute and a space.
LocatorPatternText(attr) == << "@Locate\\(\\s*", attr, " " >>

\* first position after i that is not matched by \s*
RECURSIVE skip_space(_, _)
skip_space(s, i) ==
    IF i <= Len(s) /\ IsSpace(s[i]) THEN skip_space(s, i + 1) ELSE i

\* the regular expression "@Locate\(\s*<attr> = " matches s at i
LocatorMatchesAt(s, i, attr) ==
    /\ i >= 1 /\ i <= Len(s)
    /\ s[i] = "@Locate("
    /\ skip_space(s, i + 1) + 1 <= Len(s)
    /\ s[skip_space(s, i + 1)] = attr
    /\ s[skip_space(s, i + 1) + 1] = " "

\* re.sub(old_style_locator, "@Locate(" + new_style_locator, contents)
RECURSIVE sub_locator_from(_, _, _, _)
sub_locator_from(s, attr, new_style_locator, i) ==
    IF i > Len(s) THEN << >>
    ELSE IF LocatorMatchesAt(s, i, attr)
         THEN << "@Locate(", new_style_locator, " " >> \o
              sub_locator_from(s, attr, new_style_locator, skip_space(s, i + 1) + 2)
         ELSE << s[i] >> \o sub_locator_from(s, attr, new_style_locator, i + 1)

RECURSIVE sub_locators(_, _)
sub_locators(contents, k) ==
    IF k > Len(locators) THEN contents
    ELSE sub_locators(
           sub_locator_from(contents, locators[k][1], locators[k][2], 1), k + 1)

\* the guard of the first loop of fix_locators
LocatorPatternInContents(contents) ==
    \E k \in 1..Len(locators) : Contains(contents, LocatorPatternText(locators[k][1]))

fix_locators(contents) ==
    sub_locators(
        IF LocatorPatternInContents(contents)
        THEN add_import_if_not_present(StrategyImport, contents)
        ELSE contents,
        1)

\* re.sub("ApplauseEnvironmentConfigurationManager.get()", ...): the "." of the
\* pattern is a wildcard and its "()" is an empty group, which matches nothing
check_for_applause_config_usage(contents) ==
    re_sub(<< "Applause", "EnvironmentConfigurationManager", ".", "get" >>,
           << "Applause", "EnvironmentConfigurationManager", ".", "INSTANCE",
              ".", "get", "()" >>,
           contents)

\* re.sub("EnvironmentConfigurationManager.get()", ...)
check_for_config_usage(contents) ==
    re_sub(<< "EnvironmentConfigurationManager", ".", "get" >>,
           << "EnvironmentConfigurationManager", ".", "INSTANCE", ".", "get", "()" >>,
           contents)

\* Characters inside the atoms, where a pattern or a split looks at them.
\* The text of an atom before its first "(" (the atom itself when it has none):
BeforeOpenParen(a) ==
    CASE a = "@Locate(" -> << "@Locate" >>
      [] a = "create(" -> << "create" >>
      [] a = "()" -> << >>
      [] a = ".initialize()" -> << ".initialize" >>
      [] a = "@Locate\\(\\s*" -> << "@Locate\\" >>
      [] a = "PageObjectBuilder.withContext(SdkHelper.getDriverContext()).forBaseComponent("
             -> << "PageObjectBuilder.withContext" >>
      [] OTHER -> << a >>

HasOpenParen(a) == BeforeOpenParen(a) # << a >>

HasCloseParen(a) ==
    a \in { ")", "()", "class)", ".initialize()",
            "PageObjectBuilder.withContext(SdkHelper.getDriverContext()).forBaseComponent(" }

\* "using" in a
HasUsing(a) == \E k \in 1..Len(locators) : a = locators[k][2]

\* number of characters of s[from..to]
RECURSIVE CharLen(_, _, _)
CharLen(s, from, to) ==
    IF from > to THEN 0 ELSE Len(s[from]) + CharLen(s, from + 1, to)

\* SdkHelper.create\(.+.class\) with or without the closing ";" can match from
\* i to the "class)" atom at j: at least two characters (.+ and .) lie between
\* "create(" and "class)", none of them a newline
SdkSpan(s, i, j, semicolon) ==
    /\ i >= 1 /\ i + 2 < j /\ j <= Len(s)
    /\ s[i] = "SdkHelper" /\ AnyChar(s[i + 1]) /\ s[i + 2] = "create("
    /\ s[j] = "class)"
    /\ semicolon => (j + 1 <= Len(s) /\ s[j + 1] = ";")
    /\ \A k \in (i + 3)..(j - 1) : s[k] # NL
    /\ CharLen(s, i + 3, j - 1) >= 2

NoMatch == [ start |-> 0, end |-> 0 ]

\* re.search: the leftmost start, and from it the longest match (.+ is greedy)
sdk_search(s, semicolon) ==
    LET starts == { i \in 1..Len(s) : \E j \in 1..Len(s) : SdkSpan(s, i, j, semicolon) }
    IN  IF starts = {} THEN NoMatch
        ELSE LET i == CHOOSE x \in starts : \A y \in starts : x <= y
                 j == CHOOSE x \in 1..Len(s) :
                        /\ SdkSpan(s, i, x, semicolon)
                        /\ \A y \in 1..Len(s) : SdkSpan(s, i, y, semicolon) => y <= x
             IN  [ start |-> i, end |-> IF semicolon THEN j + 1 ELSE j ]

\* text.split('(')[0] of a text that starts at atom i
RECURSIVE upto_open_paren(_, _, _)
upto_open_paren(s, i, to) ==
    IF i > to THEN << >>
    ELSE IF HasOpenParen(s[i]) THEN BeforeOpenParen(s[i])
         ELSE << s[i] >> \o upto_open_paren(s, i + 1, to)

\* text.split('.class')[0]
RECURSIVE upto_dot_class(_, _)
upto_dot_class(s, i) ==
    IF i > Len(s) THEN << >>
    ELSE IF s[i] = "." /\ i + 1 <= Len(s) /\ s[i + 1] \in { "class)", "class" }
         THEN << >>
         ELSE << s[i] >> \o upto_dot_class(s, i + 1)

\* result.group().split('(')[1].split('.class')[0]: the first "(" of the match
\* is the one that ends its "create(" atom
class_name(s, result) ==
    upto_dot_class(upto_open_paren(s, result.start + 3, result.end), 1)

\* one pass of the body of the while loop had it left the call where it was
sdk_rewrite_keeping_call(contents, result) ==
    add_import_if_not_present(PageObjectBuilderImport,
        SubSeq(contents, 1, result.start - 1)
        \o << "PageObjectBuilder.withContext(SdkHelper.getDriverContext()).forBaseComponent(" >>
        \o class_name(contents, result)
        \o << ".", "class)", ".initialize()", ";" >>
        \o SubSeq(contents, result.start, Len(contents)))

\* one pass of the body of the while loop of remove_sdk_helper_create
sdk_rewrite(contents, result) ==
    add_import_if_not_present(PageObjectBuilderImport,
        SubSeq(contents, 1, result.start - 1)
        \o << "PageObjectBuilder.withContext(SdkHelper.getDriverContext()).forBaseComponent(" >>
        \o class_name(contents, result)
        \o << ".", "class)", ".initialize()", ";" >>
        \o SubSeq(contents, result.end + 1, Len(contents)))

RECURSIVE sdk_loop(_, _)
sdk_loop(contents, result) ==
    IF result.start = 0 THEN contents
    ELSE LET next == sdk_rewrite(contents, result)
         IN  sdk_loop(next, sdk_search(next, FALSE))

remove_sdk_helper_create(contents) == sdk_loop(contents, sdk_search(contents, TRUE))

None == "None"

SubComponentWarning ==
    "@Locate annotation found without an underlying locator. If no locator is tied to the element, please add the @SubComponent annotation."

\* @Locate\(.*\) on one line: from the first "@Locate(" to the last ")" of the
\* line; the line has at most one match, since .* is greedy
LocateMatch(line) ==
    LET opens  == { i \in 1..Len(line) : line[i] = "@Locate(" }
        closes == { i \in 1..Len(line) : HasCloseParen(line[i]) }
    IN  IF opens = {} \/ closes = {} THEN NoMatch
        ELSE LET p == CHOOSE x \in opens : \A y \in opens : x <= y
                 q == CHOOSE x \in closes : \A y \in closes : y <= x
             IN  IF p < q THEN [ start |-> p, end |-> q ] ELSE NoMatch

LocateWithoutUsing(line) ==
    LET m == LocateMatch(line)
    IN  m.start # 0 /\ \A k \in m.start..m.end : ~HasUsing(line[k])

check_for_sub_components(contents) ==
    IF \E line \in { split(contents)[i] : i \in 1..Len(split(contents)) } :
           LocateWithoutUsing(line)
    THEN SubComponentWarning
    ELSE None

\* The passes of convert_java on the text read from the file.  Each pass gets
\* the value the pass before it returned: the element of a one-element set.
convert_java_contents(contents) ==
    CHOOSE c5 \in
        { remove_sdk_helper_create(c4) : c4 \in
            { check_for_config_usage(c3) : c3 \in
                { check_for_applause_config_usage(c2) : c2 \in
                    { fix_locators(c1) : c1 \in
                        { replace_imports(contents) } } } } } : TRUE

convert_java_warnings(contents) ==
    << check_for_sub_components(convert_java_contents(contents)) >>

(***************************************************************************)
(* scripts/convert.py: convert_pom                                         *)
(*                                                                         *)
(* The atoms of a POM are its tags with their text (one atom per element   *)
(* the patterns name whole), the text of a version element, and white      *)
(* space: "\n", " " and the runs of spaces the replacement texts indent    *)
(* their lines with.                                                       *)
(***************************************************************************)
Indent12 == "            "
Indent16 == "                "
Indent20 == "                    "

\* what \s matches in a POM
IsPomSpace(a) == IsSpace(a) \/ a \in { Indent12, Indent16, Indent20 }

\* The elements of a pattern: one atom out of a set, or a greedy run (\s+, \s*,
\* .+ and .* with re.DOTALL) of at least min atoms.
One(atoms) == [ kind |-> "one", atoms |-> atoms, min |-> 1 ]
Spaces(min) == [ kind |-> "spaces", atoms |-> {}, min |-> min ]
Dots(min) == [ kind |-> "dots", atoms |-> {}, min |-> min ]

ElemMatches(e, a) ==
    CASE e.kind = "one" -> a \in e.atoms
      [] e.kind = "spaces" -> IsPomSpace(a)
      [] e.kind = "dots" -> TRUE

\* the longest run of atoms from i that a greedy element can take
RECURSIVE run_length(_, _, _)
run_length(e, s, i) ==
    IF i <= Len(s) /\ ElemMatches(e, s[i]) THEN 1 + run_length(e, s, i + 1) ELSE 0

\* The position after the match of pat[k..] at s[i..], as the backtracking
\* matcher finds it (each greedy element takes the most the rest allows);
\* 0 when there is no match.
RECURSIVE regex_end(_, _, _, _)
regex_end(pat, k, s, i) ==
    IF k > Len(pat) THEN i
    ELSE IF pat[k].kind = "one"
         THEN IF i <= Len(s) /\ ElemMatches(pat[k], s[i])
              THEN regex_end(pat, k + 1, s, i + 1)
              ELSE 0
         ELSE LET ok == { n \in pat[k].min..run_length(pat[k], s, i) :
                            regex_end(pat, k + 1, s, i + n) # 0 }
              IN  IF ok = {} THEN 0
                  ELSE regex_end(pat, k + 1, s,
                                 i + (CHOOSE n \in ok : \A x \in ok : x <= n))

\* re.sub(pat, repl, s, flags=re.DOTALL | re.MULTILINE); no pattern of
\* convert_pom matches the empty text
RECURSIVE pom_sub_from(_, _, _, _)
pom_sub_from(pat, repl, s, i) ==
    IF i > Len(s) THEN << >>
    ELSE IF regex_end(pat, 1, s, i) # 0
         THEN repl \o pom_sub_from(pat, repl, s, regex_end(pat, 1, s, i))
         ELSE << s[i] >> \o pom_sub_from(pat, repl, s, i + 1)

\* the "." of a pattern matches the "-" of the text as well as a "."
SdkVersionOpen == { "<com.applause.sdk.java.version>" }
SdkVersionClose == { "</com.applause.sdk.java.version>" }
AutoSdkJavaArtifact ==
    { "<artifactId>auto-sdk-java</artifactId>", "<artifactId>auto.sdk.java</artifactId>" }
HelperRepoUrl ==
    { "<url>https://maven.pkg.github.com/ApplauseAuto/helper-sdk.auto</url>",
      "<url>https://maven.pkg.github.com/ApplauseAuto/helper-sdk-auto</url>" }
GroupIdApplause == { "<groupId>com.applause</groupId>" }

HelpersDependency ==
    << "<dependency>", NL,
       Indent20, "<groupId>com.applause</groupId>", NL,
       Indent20, "<artifactId>auto-sdk-java-helpers</artifactId>", NL,
       Indent20, "<version>", "${com.applause.sdk.java.version}", "</version>", NL,
       Indent16, "</dependency>" >>

\* the (old_line, new_line) list of convert_pom, in declared order
pom_substitutions ==
    << << << One(SdkVersionOpen), Dots(1), One(SdkVersionClose) >>,
          << "<com.applause.sdk.java.version>", "6.0.0",
             "</com.applause.sdk.java.version>" >> >>,
       << << One({ "<source>17</source>" }) >>, << "<source>21</source>" >> >>,
       << << One({ "<target>17</target>" }) >>, << "<target>21</target>" >> >>,
       << << One({ "<dependency>" }), Spaces(1), One(GroupIdApplause), Spaces(1),
             One(AutoSdkJavaArtifact), Spaces(1),
             One({ "<version>" }), Dots(0), One({ "</version>" }), Spaces(1),
             One({ "<type>pom</type>" }), Spaces(1),
             One({ "<scope>import</scope>" }), Spaces(1), One({ "</dependency>" }) >>,
          << "<dependency>", NL,
             Indent16, "<groupId>com.applause</groupId>", NL,
             Indent16, "<artifactId>auto-sdk-java-page-object</artifactId>", NL,
             Indent16, "<version>", "${com.applause.sdk.java.version}", "</version>", NL,
             Indent12, "</dependency>", NL,
             Indent12, "<dependency>", NL,
             Indent16, "<groupId>com.applause</groupId>", NL,
             Indent16, "<artifactId>auto-sdk-java-testng</artifactId>", NL,
             Indent16, "<version>", "${com.applause.sdk.java.version}", "</version>", NL,
             Indent12, "</dependency>" >> >>,
       << << Spaces(0), One({ "<repository>" }), Spaces(0),
             One({ "<id>github</id>" }), Spaces(0),
             One({ "<name>GitHub OWNER Apache Maven Packages</name>" }), Spaces(0),
             One(HelperRepoUrl), Spaces(0),
             One({ "<releases>" }), Spaces(0), One({ "<enabled>true</enabled>" }), Spaces(0),
             One({ "<updatePolicy>always</updatePolicy>" }), Spaces(0),
             One({ "</releases>" }), Spaces(0),
             One({ "<snapshots>" }), Spaces(0), One({ "<enabled>true</enabled>" }), Spaces(0),
             One({ "</snapshots>" }), Spaces(0), One({ "</repository>" }), Spaces(0) >>,
          << >> >>,
       << << Spaces(0), One({ "<dependency>" }), Spaces(0),
             One({ "<artifactId>helper-sdk</artifactId>" }), Spaces(0),
             One(GroupIdApplause), Spaces(0),
             One({ "<version>" }), One({ "${helper.sdk.version}" }), One({ "</version>" }),
             Spaces(0), One({ "</dependency>" }), Spaces(0) >>,
          << >> >>,
       << << One({ "</dependencies>" }) >>,
          HelpersDependency \o << NL, "</dependencies>" >> >> >>

\* for old_line, new_line in pom_substitutions: new_pom = re.sub(...)
RECURSIVE pom_subs(_, _)
pom_subs(new_pom, k) ==
    IF k > Len(pom_substitutions) THEN new_pom
    ELSE pom_subs(
           CHOOSE t \in { pom_sub_from(pom_substitutions[k][1],
                                       pom_substitutions[k][2], new_pom, 1) } : TRUE,
           k + 1)

\* the text convert_pom writes for the text it read
convert_pom_contents(new_pom) == pom_subs(new_pom, 1)

(***************************************************************************)
(* scripts/appium-conversion.py                                            *)
(*                                                                         *)
(* The atoms of a capability file are the double quote, ":", ",", " ",     *)
(* "\n", and the texts between them.  A capability name that starts with   *)
(* another capability name of the table is that name's atoms followed by   *)
(* the rest ("appActivity" is "app", "Activity"), so that a match of the   *)
(* shorter name inside the longer one is expressible.                      *)
(***************************************************************************)
Q == "\""

unused_applause_options ==
    << << "isStrict", << "true", "false" >> >>,
       << "isMobileNative", << "false" >> >> >>

\* ["all"]
AllScopes == << << "all" >> >>

\* the table of the script, in declared order; each scope is scope.split('_')
capabilities_to_update ==
    <<
       << <<"adbExecTimeout">>, AllScopes >>,
       << <<"adbPort">>, AllScopes >>,
       << <<"absoluteWebLocations">>, AllScopes >>,
       << <<"additionalWebviewBundleIds">>, AllScopes >>,
       << <<"allowDelayAdb">>, AllScopes >>,
       << <<"allowProvisioningDeviceRegistration">>, AllScopes >>,
       << <<"allowTestPackages">>, AllScopes >>,
       << <<"androidInstallTimeout">>, AllScopes >>,
       << <<"app">>, AllScopes >>,
       << <<"app", "Activity">>, AllScopes >>,
       << <<"app", "InstallStrategy">>, AllScopes >>,
       << <<"app", "Package">>, AllScopes >>,
       << <<"app", "PushTimeout">>, AllScopes >>,
       << <<"app", "WaitActivity">>, AllScopes >>,
       << <<"app", "WaitDuration">>, AllScopes >>,
       << <<"app", "WaitForLaunch">>, AllScopes >>,
       << <<"app", "WaitPackage">>, AllScopes >>,
       << <<"autoAcceptAlerts">>, AllScopes >>,
       << <<"autoDismissAlerts">>, AllScopes >>,
       << <<"autoFillPasswords">>, AllScopes >>,
       << <<"autoGrantPermissions">>, AllScopes >>,
       << <<"autoLaunch">>, AllScopes >>,
       << <<"autoWebview">>, AllScopes >>,
       << <<"autoWebview", "Name">>, AllScopes >>,
       << <<"autoWebview", "Timeout">>, AllScopes >>,
       << <<"automationName">>, AllScopes >>,
       << <<"avd">>, AllScopes >>,
       << <<"avd", "Args">>, AllScopes >>,
       << <<"avd", "Env">>, AllScopes >>,
       << <<"avd", "LaunchTimeout">>, AllScopes >>,
       << <<"avd", "ReadyTimeout">>, AllScopes >>,
       << <<"buildToolsVersion">>, AllScopes >>,
       << <<"bundleId">>, AllScopes >>,
       << <<"calendarAccessAuthorized">>, AllScopes >>,
       << <<"calendarFormat">>, AllScopes >>,
       << <<"chromeLoggingPrefs">>, AllScopes >>,
       << <<"chromeOptions">>, AllScopes >>,
       << <<"chromedriverArgs">>, AllScopes >>,
       << <<"chromedriverChromeMappingFile">>, AllScopes >>,
       << <<"chromedriverDisableBuildCheck">>, AllScopes >>,
       << <<"chromedriverExecutable">>, AllScopes >>,
       << <<"chromedriverExecutable", "Dir">>, AllScopes >>,
       << <<"chromedriverPort">>, AllScopes >>,
       << <<"chromedriverPort", "s">>, AllScopes >>,
       << <<"chromedriverUseSystemExecutable">>, AllScopes >>,
       << <<"clearDeviceLogsOnStart">>, AllScopes >>,
       << <<"clearSystemFiles">>, AllScopes >>,
       << <<"commandTimeout", "s">>, AllScopes >>,
       << <<"connectHardwareKeyboard">>, AllScopes >>,
       << <<"customSSLCert">>, AllScopes >>,
       << <<"derivedDataPath">>, AllScopes >>,
       << <<"deviceName">>, << <<"mobileweb", "saucelabs">>, <<"mobilenative", "all">>, <<"native", "all">> >> >>,
       << <<"disableAutomaticScreenshots">>, AllScopes >>,
       << <<"disableSuppressAccessibilityService">>, AllScopes >>,
       << <<"disableWindowAnimation">>, AllScopes >>,
       << <<"dontStopAppOnReset">>, AllScopes >>,
       << <<"enableAsyncExecuteFromHttps">>, AllScopes >>,
       << <<"enablePerformanceLogging">>, AllScopes >>,
       << <<"enableWebviewDetailsCollection">>, AllScopes >>,
       << <<"enforceAppInstall">>, AllScopes >>,
       << <<"enforceFreshSimulatorCreation">>, AllScopes >>,
       << <<"ensureWebviewsHavePages">>, AllScopes >>,
       << <<"extractChromeAndroidPackageFromContextName">>, AllScopes >>,
       << <<"forceAppLaunch">>, AllScopes >>,
       << <<"forceSimulatorSoftwareKeyboardPresence">>, AllScopes >>,
       << <<"fullContextList">>, AllScopes >>,
       << <<"fullReset">>, AllScopes >>,
       << <<"gpsEnabled">>, AllScopes >>,
       << <<"hideKeyboard">>, AllScopes >>,
       << <<"ignoreHiddenApiPolicyError">>, AllScopes >>,
       << <<"includeDeviceCapsToSessionInfo">>, AllScopes >>,
       << <<"includeSafariInWebviews">>, AllScopes >>,
       << <<"injectedImageProperties">>, AllScopes >>,
       << <<"intentAction">>, AllScopes >>,
       << <<"intentCategory">>, AllScopes >>,
       << <<"intentFlags">>, AllScopes >>,
       << <<"iosInstallPause">>, AllScopes >>,
       << <<"iosSimulatorLogsPredicate">>, AllScopes >>,
       << <<"isHeadless">>, AllScopes >>,
       << <<"keepKeyChains">>, AllScopes >>,
       << <<"keyAlias">>, AllScopes >>,
       << <<"keyPassword">>, AllScopes >>,
       << <<"keychainPassword">>, AllScopes >>,
       << <<"keychainPath">>, AllScopes >>,
       << <<"keychainsExcludePatterns">>, AllScopes >>,
       << <<"keystorePassword">>, AllScopes >>,
       << <<"keystorePath">>, AllScopes >>,
       << <<"language">>, AllScopes >>,
       << <<"launchWithIDB">>, AllScopes >>,
       << <<"locale">>, AllScopes >>,
       << <<"locale", "Script">>, AllScopes >>,
       << <<"localizableStringsDir">>, AllScopes >>,
       << <<"logcatFilterSpecs">>, AllScopes >>,
       << <<"logcatFormat">>, AllScopes >>,
       << <<"maxTypingFrequency">>, AllScopes >>,
       << <<"mjpegScreenshotUrl">>, AllScopes >>,
       << <<"mjpegServerPort">>, AllScopes >>,
       << <<"mockLocationApp">>, AllScopes >>,
       << <<"nativeWebScreenshot">>, AllScopes >>,
       << <<"nativeWebTap">>, AllScopes >>,
       << <<"nativeWebTap", "Strict">>, AllScopes >>,
       << <<"networkSpeed">>, AllScopes >>,
       << <<"newCommandTimeout">>, AllScopes >>,
       << <<"noReset">>, AllScopes >>,
       << <<"noSign">>, AllScopes >>,
       << <<"optionalIntentArguments">>, AllScopes >>,
       << <<"orientation">>, AllScopes >>,
       << <<"otherApps">>, AllScopes >>,
       << <<"permissions">>, AllScopes >>,
       << <<"platformVersion">>, AllScopes >>,
       << <<"prebuiltWDAPath">>, AllScopes >>,
       << <<"printPageSourceOnFindFailure">>, AllScopes >>,
       << <<"processArguments">>, AllScopes >>,
       << <<"recreateChromeDriverSessions">>, AllScopes >>,
       << <<"reduceMotion">>, AllScopes >>,
       << <<"reduceTransparency">>, AllScopes >>,
       << <<"remoteAdbHost">>, AllScopes >>,
       << <<"remoteAppsCacheLimit">>, AllScopes >>,
       << <<"resetLocationService">>, AllScopes >>,
       << <<"resetOnSessionStartOnly">>, AllScopes >>,
       << <<"resultBundlePath">>, AllScopes >>,
       << <<"resultBundleVersion">>, AllScopes >>,
       << <<"safariAllowPopups">>, AllScopes >>,
       << <<"safariGarbageCollect">>, AllScopes >>,
       << <<"safariGlobalPreferences">>, AllScopes >>,
       << <<"safariIgnoreFraudWarning">>, AllScopes >>,
       << <<"safariIgnoreWebHostnames">>, AllScopes >>,
       << <<"safariInitialUrl">>, AllScopes >>,
       << <<"safariLogAllCommunication">>, AllScopes >>,
       << <<"safariLogAllCommunication", "HexDump">>, AllScopes >>,
       << <<"safariOpenLinksInBackground">>, AllScopes >>,
       << <<"safariSocketChunkSize">>, AllScopes >>,
       << <<"safariWebInspectorMaxFrameLength">>, AllScopes >>,
       << <<"scaleFactor">>, AllScopes >>,
       << <<"screenshotQuality">>, AllScopes >>,
       << <<"shouldTerminateApp">>, AllScopes >>,
       << <<"shouldUseSingletonTestManager">>, AllScopes >>,
       << <<"showChromedriverLog">>, AllScopes >>,
       << <<"showIOSLog">>, AllScopes >>,
       << <<"showXcodeLog">>, AllScopes >>,
       << <<"shutdownOtherSimulators">>, AllScopes >>,
       << <<"simpleIsVisibleCheck">>, AllScopes >>,
       << <<"simulatorDevicesSetPath">>, AllScopes >>,
       << <<"simulatorPasteboardAutomaticSync">>, AllScopes >>,
       << <<"simulatorStartupTimeout">>, AllScopes >>,
       << <<"simulatorTracePointer">>, AllScopes >>,
       << <<"simulatorWindowCenter">>, AllScopes >>,
       << <<"skipDeviceInitialization">>, AllScopes >>,
       << <<"skipLogCapture">>, AllScopes >>,
       << <<"skipLogcatCapture">>, AllScopes >>,
       << <<"skipServerInstallation">>, AllScopes >>,
       << <<"skipUnlock">>, AllScopes >>,
       << <<"suppressKillServer">>, AllScopes >>,
       << <<"systemPort">>, AllScopes >>,
       << <<"timeZone">>, AllScopes >>,
       << <<"udid">>, AllScopes >>,
       << <<"uiautomator2ServerInstallTimeout">>, AllScopes >>,
       << <<"uiautomator2ServerLaunchTimeout">>, AllScopes >>,
       << <<"uiautomator2ServerReadTimeout">>, AllScopes >>,
       << <<"uninstallOtherPackages">>, AllScopes >>,
       << <<"unlockKey">>, AllScopes >>,
       << <<"unlockStrategy">>, AllScopes >>,
       << <<"unlockSuccessTimeout">>, AllScopes >>,
       << <<"unlockType">>, AllScopes >>,
       << <<"updatedWDABundleId">>, AllScopes >>,
       << <<"useJSONSource">>, AllScopes >>,
       << <<"useKeystore">>, AllScopes >>,
       << <<"useNativeCachingStrategy">>, AllScopes >>,
       << <<"useNewWDA">>, AllScopes >>,
       << <<"usePrebuiltWDA">>, AllScopes >>,
       << <<"usePreinstalledWDA">>, AllScopes >>,
       << <<"useSimpleBuildTest">>, AllScopes >>,
       << <<"useXctestrunFile">>, AllScopes >>,
       << <<"userProfile">>, AllScopes >>,
       << <<"waitForIdleTimeout">>, AllScopes >>,
       << <<"waitForQuiescence">>, AllScopes >>,
       << <<"wdaBaseUrl">>, AllScopes >>,
       << <<"wdaConnectionTimeout">>, AllScopes >>,
       << <<"wdaEventloopIdleDelay">>, AllScopes >>,
       << <<"wdaLaunchTimeout">>, AllScopes >>,
       << <<"wdaLocalPort">>, AllScopes >>,
       << <<"wdaStartupRetries">>, AllScopes >>,
       << <<"wdaStartupRetryInterval">>, AllScopes >>,
       << <<"webDriverAgentUrl">>, AllScopes >>,
       << <<"webkitResponseTimeout">>, AllScopes >>,
       << <<"webviewConnectRetries">>, AllScopes >>,
       << <<"webviewConnectTimeout">>, AllScopes >>,
       << <<"webviewDevtoolsPort">>, AllScopes >>,
       << <<"xcodeConfigFile">>, AllScopes >>,
       << <<"xcodeOrgId">>, AllScopes >>,
       << <<"xcodeSigningId">>, AllScopes >>,
       << <<"commandTimeout">>, AllScopes >>,
       << <<"deviceOrientation">>, AllScopes >>,
       << <<"idleTimeout">>, AllScopes >>
    >>

\* f"\"{option}\": \"{value}\","  and  f"\"{option}\" : \"{value}\","
OptionPair(option, value) == << Q, option, Q, ":", " ", Q, value, Q, "," >>
OptionPairSpaced(option, value) == << Q, option, Q, " ", ":", " ", Q, value, Q, "," >>

\* f"\"{capability}\""  and  f"\"appium:{capability}\""
Quoted(capability) == << Q >> \o capability \o << Q >>
QuotedAppium(capability) == << Q, "appium:" >> \o capability \o << Q >>

\* The driver types and driver scopes that the lower-cased text of an atom
\* contains; none of them lies across two atoms.
LowerWords(a) ==
    CASE a = "isMobileNative" -> { "mobilenative", "native" }
      [] a \in { "nativeWebScreenshot", "nativeWebTap", "useNativeCachingStrategy" }
             -> { "native" }
      [] a = "MobileWeb" -> { "mobileweb" }
      [] a = "SauceLabs" -> { "saucelabs" }
      [] a \in { "Android", "androidInstallTimeout",
                 "extractChromeAndroidPackageFromContextName" } -> { "android" }
      [] OTHER -> {}

\* word in contents.lower()
InLower(word, contents) == \E i \in 1..Len(contents) : word \in LowerWords(contents[i])

\* Below, st is the state of update_appium_capabilities: its local variable
\* contents and the lines it has printed (out).
\* One value of one option: the if / elif of the first loop
remove_option_value(st, option, value) ==
    IF Contains(st.contents, OptionPair(option, value))
    THEN [ contents |-> str_replace(st.contents, OptionPair(option, value), << >>),
           out |-> Append(st.out, << "Removing unused option", option, value >>) ]
    ELSE IF Contains(st.contents, OptionPairSpaced(option, value))
         THEN [ contents |-> str_replace(st.contents, OptionPairSpaced(option, value), << >>),
                out |-> Append(st.out, << "Removing unused option", option, value >>) ]
         ELSE st

RECURSIVE remove_values(_, _, _, _)
remove_values(st, option, values, j) ==
    IF j > Len(values) THEN st
    ELSE remove_values(
           CHOOSE x \in { remove_option_value(st, option, values[j]) } : TRUE,
           option, values, j + 1)

\* for option, values in unused_applause_options: for value in values: ...
RECURSIVE remove_unused_options(_, _)
remove_unused_options(st, k) ==
    IF k > Len(unused_applause_options) THEN st
    ELSE remove_unused_options(
           CHOOSE x \in { remove_values(st, unused_applause_options[k][1],
                                        unused_applause_options[k][2], 1) } : TRUE,
           k + 1)

\* s.replace(p, r, 1): the first occurrence only
RECURSIVE str_replace_first_from(_, _, _, _)
str_replace_first_from(s, p, r, i) ==
    IF i > Len(s) THEN << >>
    ELSE IF MatchesAt(s, i, p)
         THEN r \o SubSeq(s, i + Len(p), Len(s))
         ELSE << s[i] >> \o str_replace_first_from(s, p, r, i + 1)

\* update_single_capability had it renamed the first occurrence only
update_single_capability_first(contents, capability) ==
    str_replace_first_from(contents, Quoted(capability), QuotedAppium(capability), 1)

\* contents.replace(f"\"{capability}\"", f"\"appium:{capability}\"")
update_single_capability(contents, capability) ==
    str_replace(contents, Quoted(capability), QuotedAppium(capability))

\* update_single_capability with its print
updated(st, capability) ==
    [ contents |-> update_single_capability(st.contents, capability),
      out |-> Append(st.out, << "Updating capability", capability >>) ]

\* the body of "for scope in cap_scope" had it not looked for the driver scope
update_for_scope_any_scope(st, capability, scopeparts) ==
    IF Len(scopeparts) # 2
    THEN [ st EXCEPT !.out = Append(@, << "Warning: Scope is not recognized",
                                         scopeparts, capability >>) ]
    ELSE IF ~InLower(scopeparts[1], st.contents)
         THEN [ st EXCEPT !.out = Append(@, << "Driver type not found",
                                              scopeparts[1], capability >>) ]
         ELSE updated(st, capability)

\* the body of "for scope in cap_scope"
update_for_scope(st, capability, scopeparts) ==
    IF Len(scopeparts) # 2
    THEN [ st EXCEPT !.out = Append(@, << "Warning: Scope is not recognized",
                                         scopeparts, capability >>) ]
    ELSE IF ~InLower(scopeparts[1], st.contents)
         THEN [ st EXCEPT !.out = Append(@, << "Driver type not found",
                                              scopeparts[1], capability >>) ]
         ELSE IF scopeparts[2] = "all"
              THEN updated(st, capability)
              ELSE IF InLower(scopeparts[2], st.contents)
                   THEN updated(st, capability)
                   ELSE [ st EXCEPT !.out = Append(@, << "Warning: Scope not found",
                                                        scopeparts[2], capability >>) ]

RECURSIVE update_for_scopes(_, _, _, _)
update_for_scopes(st, capability, cap_scope, j) ==
    IF j > Len(cap_scope) THEN st
    ELSE update_for_scopes(
           CHOOSE x \in { update_for_scope(st, capability, cap_scope[j]) } : TRUE,
           capability, cap_scope, j + 1)

\* the body of "for capability, cap_scope in capabilities_to_update"
update_capability(st, capability, cap_scope) ==
    IF ~Contains(st.contents, Quoted(capability)) THEN st
    ELSE IF \E j \in 1..Len(cap_scope) : cap_scope[j] = << "all" >>
         THEN updated(st, capability)
         ELSE update_for_scopes(st, capability, cap_scope, 1)

\* for capability, cap_scope in capabilities_to_update[lo..hi], in the order of
\* the table: the first half of the range, then the second half on its result
RECURSIVE update_range(_, _, _)
update_range(st, lo, hi) ==
    IF lo > hi THEN st
    ELSE IF lo = hi
         THEN update_capability(st, capabilities_to_update[lo][1],
                                capabilities_to_update[lo][2])
         ELSE CHOOSE y \in
                { update_range(x, ((lo + hi) \div 2) + 1, hi) : x \in
                    { update_range(st, lo, (lo + hi) \div 2) } } : TRUE

update_capabilities(st) == update_range(st, 1, Len(capabilities_to_update))

\* the text update_appium_capabilities writes for the text it read
update_appium_capabilities_contents(contents) ==
    update_capabilities(
        remove_unused_options([ contents |-> contents, out |-> << >> ], 1)).contents

(***************************************************************************)
(* State                                                                   *)
(***************************************************************************)
VARIABLES
    \* one run of a tool on one file (convert_java, update_appium_capabilities)
    file,       \* the text of the file on disk
    infile,     \* the text infile.read() returned to the current run
    contents,   \* the local variable contents
    result,     \* the local variable result of remove_sdk_helper_create
    warnings,   \* the list convert_java returns
    written,    \* the texts written to the file so far, one per run
    pc,         \* the next statement
    stdout,     \* the lines printed so far
    \* a whole invocation of a script (its module-level code)
    tool,            \* which script runs
    fs,              \* the files: path -> text, Absent when there is no file
    argv,            \* sys.argv[1:]
    args_processed,  \* the module-level counter
    walk,            \* the (root, files) pairs os.walk has still to yield
    all_warnings     \* the module-level dict warnings of scripts/convert.py

mvars == << tool, fs, argv, args_processed, walk, all_warnings >>

\* the value of the invocation's variables while one file is looked at alone
MainIdle ==
    /\ tool = "none"
    /\ fs = << >>
    /\ argv = << >>
    /\ args_processed = 0
    /\ walk = << >>
    /\ all_warnings = << >>

(***************************************************************************)
(* convert_java, pass by pass, on one file                                 *)
(***************************************************************************)
vars == << file, infile, contents, result, warnings, written, pc, stdout,
          tool, fs, argv, args_processed, walk, all_warnings >>

jvars == << file, infile, contents, result, warnings, written, pc, stdout >>

\* bounds of the inputs
MaxLines == 4
MaxRuns == 2

\* the lines the input files are made of
JavaLines ==
    { << "import", " ", "com", ".", "applause", ".", "util", ".", "Foo", ";" >>,
      << "import", " ", "com", ".", "applause", ".", "auto", ".", "helpers", ".",
         "util", ".", "Foo", ";" >>,
      << "import", " ", "com", ".", "applause", ".", "auto", ".", "helpers", ".",
         "util", ".", "Foo", ";", " " >>,
      << "@Locate(", "css =", " ", "\".btn\"", ")" >>,
      << "@Locate(" >>,
      << "id =", " ", "SdkHelper", ".", "create(", "Foo", ".", "class)", ";" >>,
      << "@Locate\\(\\s*", "css =", " " >>,
      << "Applause", "EnvironmentConfigurationManager", ".", "get", "()", ";" >> }

RECURSIVE TextsOf(_)
TextsOf(n) ==
    IF n = 0 THEN { << >> }
    ELSE { << l >> \o t : l \in JavaLines, t \in TextsOf(n - 1) }

JavaTexts == UNION { { join(t) : t \in TextsOf(n) } : n \in 1..MaxLines }

JInit ==
    /\ file \in JavaTexts
    /\ infile = << >>
    /\ contents = << >>
    /\ result = NoMatch
    /\ warnings = << >>
    /\ written = << >>
    /\ stdout = << >>
    /\ pc = "open"
    /\ MainIdle

\* with open(filepath, 'r') as infile: contents = infile.read()
JOpen ==
    /\ pc = "open"
    /\ infile' = file
    /\ contents' = file
    /\ warnings' = << >>
    /\ pc' = "replace_imports"
    /\ UNCHANGED << file, result, written, stdout >>

JReplaceImports ==
    /\ pc = "replace_imports"
    /\ contents' = replace_imports(contents)
    /\ pc' = "fix_locators"
    /\ UNCHANGED << file, infile, result, warnings, written, stdout >>

JFixLocators ==
    /\ pc = "fix_locators"
    /\ contents' = fix_locators(contents)
    /\ pc' = "applause_config_usage"
    /\ UNCHANGED << file, infile, result, warnings, written, stdout >>

JApplauseConfigUsage ==
    /\ pc = "applause_config_usage"
    /\ contents' = check_for_applause_config_usage(contents)
    /\ pc' = "config_usage"
    /\ UNCHANGED << file, infile, result, warnings, written, stdout >>

JConfigUsage ==
    /\ pc = "config_usage"
    /\ contents' = check_for_config_usage(contents)
    /\ pc' = "sdk_search"
    /\ UNCHANGED << file, infile, result, warnings, written, stdout >>

\* result = re.search("SdkHelper.create\(.+.class\);", contents)
JSdkSearch ==
    /\ pc = "sdk_search"
    /\ result' = sdk_search(contents, TRUE)
    /\ pc' = "sdk_while"
    /\ UNCHANGED << file, infile, contents, warnings, written, stdout >>

\* the body of the while loop; it searches again without the ";"
JSdkRewrite ==
    /\ pc = "sdk_while"
    /\ result.start # 0
    /\ contents' = sdk_rewrite(contents, result)
    /\ result' = sdk_search(contents', FALSE)
    /\ UNCHANGED << file, infile, warnings, written, pc, stdout >>

JSdkReturn ==
    /\ pc = "sdk_while"
    /\ result.start = 0
    /\ pc' = "sub_components"
    /\ UNCHANGED << file, infile, contents, result, warnings, written, stdout >>

JCheckSubComponents ==
    /\ pc = "sub_components"
    /\ warnings' = Append(warnings, check_for_sub_components(contents))
    /\ pc' = "write"
    /\ UNCHANGED << file, infile, contents, result, written, stdout >>

\* with open(filepath, 'w') as outfile: outfile.write(contents)
JWrite ==
    /\ pc = "write"
    /\ file' = contents
    /\ written' = Append(written, contents)
    /\ stdout' = Append(stdout, << "Converted" >>)
    /\ pc' = "return"
    /\ UNCHANGED << infile, contents, result, warnings >>

\* the tool is run again on the file it has written
JRunAgain ==
    /\ pc = "return"
    /\ Len(written) < MaxRuns
    /\ pc' = "open"
    /\ UNCHANGED << file, infile, contents, result, warnings, written, stdout >>

JNext ==
    \/ JOpen
    \/ JReplaceImports
    \/ JFixLocators
    \/ JApplauseConfigUsage
    \/ JConfigUsage
    \/ JSdkSearch
    \/ JSdkRewrite
    \/ JSdkReturn
    \/ JCheckSubComponents
    \/ JWrite
    \/ JRunAgain

SpecJava == JInit /\ [][JNext /\ UNCHANGED mvars]_vars

(***************************************************************************)
(* update_appium_capabilities, loop by loop, on one file                   *)
(***************************************************************************)

\* bound of the inputs: the number of lines of a capability file
MaxPairs == 3

\* the lines the capability files are made of
CapLines ==
    { OptionPair("isStrict", "true"),
      OptionPairSpaced("isStrict", "true"),
      OptionPair("isMobileNative", "false"),
      << Q, "app", Q, ":", " ", Q, "myapp.apk", Q >>,
      << Q, "app", "Activity", Q, ":", " ", Q, ".Main", Q, "," >>,
      << Q, "deviceName", Q, ":", " ", Q, "Pixel", Q, "," >> }

\* the lines of the files that show the scopes of "deviceName"
ScopeLines ==
    { OptionPair("isMobileNative", "false"),
      OptionPair("isMobileNative", "true"),
      << Q, "deviceName", Q, ":", " ", Q, "Pixel", Q, "," >>,
      << Q, "provider", Q, ":", " ", Q, "SauceLabs", Q, "," >>,
      << Q, "platform", Q, ":", " ", Q, "MobileWeb", Q, "," >>,
      << Q, "platformName", Q, ":", " ", Q, "Android", Q, "," >> }

RECURSIVE LinesOf(_, _)
LinesOf(lines, n) ==
    IF n = 0 THEN { << >> }
    ELSE { << l >> \o t : l \in lines, t \in LinesOf(lines, n - 1) }

CapTexts == UNION { { join(t) : t \in LinesOf(CapLines, n) } : n \in 1..MaxPairs }

ScopeTexts == UNION { { join(t) : t \in LinesOf(ScopeLines, n) } : n \in 1..MaxPairs }

CIdle ==
    /\ infile = << >>
    /\ contents = << >>
    /\ result = NoMatch
    /\ warnings = << >>
    /\ written = << >>
    /\ stdout = << >>
    /\ pc = "open"
    /\ MainIdle

CInit == file \in CapTexts /\ CIdle

CScopeInit == file \in ScopeTexts /\ CIdle

\* with open(filepath, 'r') as infile: contents = infile.read()
COpen ==
    /\ pc = "open"
    /\ infile' = file
    /\ contents' = file
    /\ pc' = "remove_unused"
    /\ UNCHANGED << file, result, warnings, written, stdout >>

\* the loop over unused_applause_options
CRemoveUnused ==
    /\ pc = "remove_unused"
    /\ LET st == remove_unused_options([ contents |-> contents, out |-> stdout ], 1)
       IN  contents' = st.contents /\ stdout' = st.out
    /\ pc' = "update"
    /\ UNCHANGED << file, infile, result, warnings, written >>

\* the loop over capabilities_to_update
CUpdateCapabilities ==
    /\ pc = "update"
    /\ LET st == update_capabilities([ contents |-> contents, out |-> stdout ])
       IN  contents' = st.contents /\ stdout' = st.out
    /\ pc' = "write"
    /\ UNCHANGED << file, infile, result, warnings, written >>

\* with open(filepath, 'w') as outfile: outfile.write(contents)
CWrite ==
    /\ pc = "write"
    /\ file' = contents
    /\ written' = Append(written, contents)
    /\ pc' = "return"
    /\ UNCHANGED << infile, contents, result, warnings, stdout >>

CNext ==
    \/ COpen
    \/ CRemoveUnused
    \/ CUpdateCapabilities
    \/ CWrite

SpecCaps == CInit /\ [][CNext /\ UNCHANGED mvars]_vars

SpecCapScopes == CScopeInit /\ [][CNext /\ UNCHANGED mvars]_vars

\* update_appium_capabilities, and the same file given to it again
CRunsNext ==
    \/ CNext
    \/ JRunAgain

SpecCapRuns == CInit /\ [][CRunsNext /\ UNCHANGED mvars]_vars

(***************************************************************************)
(* remove_sdk_helper_create alone, on the text it is given                 *)
(***************************************************************************)
MaxSdkLines == 3

\* the lines the texts given to remove_sdk_helper_create are made of
SdkLines ==
    { << "id =", " ", "SdkHelper", ".", "create(", "Foo", ".", "class)", ";" >>,
      << "SdkHelper", ".", "create(", "Foo", ".", "class)" >>,
      << "SdkHelper", "_", "create(", "Foo", ".", "class)", ";" >>,
      << "SdkHelper", ".", "create(", "Foo", ".", "class)", ";", " ",
         "SdkHelper", ".", "create(", "Bar", ".", "class)", ";" >>,
      PageObjectBuilderImport }

SdkTexts == UNION { { join(t) : t \in LinesOf(SdkLines, n) } : n \in 1..MaxSdkLines }

\* remove_sdk_helper_create(contents) is called
SdkInit ==
    /\ file \in SdkTexts
    /\ infile = file
    /\ contents = file
    /\ result = NoMatch
    /\ warnings = << >>
    /\ written = << >>
    /\ stdout = << >>
    /\ pc = "sdk_search"
    /\ MainIdle

SdkNext ==
    \/ JSdkSearch
    \/ JSdkRewrite
    \/ JSdkReturn

SpecSdk == SdkInit /\ [][SdkNext /\ UNCHANGED mvars]_vars

\* The interpreter runs the next statement until the function returns: weak
\* fairness of SdkNext, written with the state predicate that says when a step
\* of SdkNext is possible (it is, exactly while pc # "sub_components").
SpecSdkFair ==
    SpecSdk /\ ([]<>(pc = "sub_components") \/ []<><<SdkNext /\ UNCHANGED mvars>>_vars)

(***************************************************************************)
(* add_import_if_not_present alone, on the text it is given                *)
(***************************************************************************)
MaxImportLines == 5

\* the lines the texts given to add_import_if_not_present are made of
ImportLines ==
    { << "import", " ", "com", ".", "applause", ".", "util", ".", "Foo", ";" >>,
      PageObjectBuilderImport,
      << "class", " ", "Foo" >> }

ImportTexts ==
    UNION { { join(t) : t \in LinesOf(ImportLines, n) } : n \in 1..MaxImportLines }

\* add_import_if_not_present(import_statement, contents) is called
AddImportInit ==
    /\ file \in ImportTexts
    /\ infile = file
    /\ contents = file
    /\ result = NoMatch
    /\ warnings = << >>
    /\ written = << >>
    /\ stdout = << >>
    /\ pc = "add_import"
    /\ MainIdle

\* the call of fix_locators
AddStrategyImport ==
    /\ pc = "add_import"
    /\ contents' = add_import_if_not_present(StrategyImport, contents)
    /\ pc' = "strategy_import_added"
    /\ UNCHANGED << file, infile, result, warnings, written, stdout >>

\* the call of remove_sdk_helper_create
AddPageObjectBuilderImport ==
    /\ pc = "add_import"
    /\ contents' = add_import_if_not_present(PageObjectBuilderImport, contents)
    /\ pc' = "builder_import_added"
    /\ UNCHANGED << file, infile, result, warnings, written, stdout >>

AddImportNext ==
    \/ AddStrategyImport
    \/ AddPageObjectBuilderImport

SpecAddImport == AddImportInit /\ [][AddImportNext /\ UNCHANGED mvars]_vars

(***************************************************************************)
(* convert_pom on one file                                                 *)
(***************************************************************************)
MaxPomParts == 3

\* the parts the POM files are made of, one to a line
PomParts ==
    { << "<com.applause.sdk.java.version>", "5.0.1", "</com.applause.sdk.java.version>" >>,
      << "<source>17</source>" >>,
      << "<dependencies>" >>,
      HelpersDependency,
      << "</dependencies>" >> }

PomTexts == UNION { { join(t) : t \in LinesOf(PomParts, n) } : n \in 1..MaxPomParts }

PInit ==
    /\ file \in PomTexts
    /\ infile = << >>
    /\ contents = << >>
    /\ result = NoMatch
    /\ warnings = << >>
    /\ written = << >>
    /\ stdout = << >>
    /\ pc = "open"
    /\ MainIdle

\* with open(filepath, 'r') as infile: new_pom = infile.read()
POpen ==
    /\ pc = "open"
    /\ infile' = file
    /\ contents' = file
    /\ pc' = "pom_substitutions"
    /\ UNCHANGED << file, result, warnings, written, stdout >>

\* for old_line, new_line in pom_substitutions: new_pom = re.sub(...)
PSubstitute ==
    /\ pc = "pom_substitutions"
    /\ contents' = pom_subs(contents, 1)
    /\ pc' = "write"
    /\ UNCHANGED << file, infile, result, warnings, written, stdout >>

\* convert_pom: the write, the print, and the same file given to it again
PNext ==
    \/ POpen
    \/ PSubstitute
    \/ JWrite
    \/ JRunAgain

SpecPom == PInit /\ [][PNext /\ UNCHANGED mvars]_vars

(***************************************************************************)
(* The module-level code of the two scripts: the loop over sys.argv[1:],   *)
(* the report of scripts/convert.py and the usage text                     *)
(*                                                                         *)
(* A path is the sequence of its names, starting at the working directory. *)
(* A name is the sequence of its atoms; its extension, when it has one, is *)
(* its last atom (".java" and ".json" have the five characters that        *)
(* filepath[-5:] takes).                                                   *)
(***************************************************************************)
\* the value of fs at a path where there is no file; no file has this text
Absent == << "ENOENT" >>

PomXml == << << "pom.xml" >> >>
TopJava == << << "A", ".java" >> >>
TopJson == << << "caps", ".json" >> >>
Notes == << << "notes", ".txt" >> >>
Proj == << << "proj" >> >>
ProjSub == << << "proj" >>, << "sub" >> >>
ProjPom == << << "proj" >>, << "pom.xml" >> >>
ProjJava == << << "proj" >>, << "A", ".java" >> >>
ProjJson == << << "proj" >>, << "caps", ".json" >> >>
SubJava == << << "proj" >>, << "sub" >>, << "A", ".java" >> >>
SubJson == << << "proj" >>, << "sub" >>, << "caps", ".json" >> >>
Missing == << << "missing" >> >>

\* the paths a file can be at
Paths ==
    { PomXml, TopJava, TopJson, Notes, ProjPom, ProjJava, ProjJson, SubJava, SubJson }

\* the texts of the files
JavaWarnText == << "@Locate(", "\".btn\"", ")" >>
JavaPlainText == << "import", " ", "com", ".", "applause", ".", "util", ".", "Foo", ";" >>
PomText ==
    << "<com.applause.sdk.java.version>", "5.0.1", "</com.applause.sdk.java.version>",
       NL, "<source>17</source>" >>
JsonText ==
    join(<< OptionPair("isStrict", "true"),
            << Q, "app", Q, ":", " ", Q, "myapp.apk", Q >> >>)
NotesText == << "notes" >>

\* the file systems a run of a tool starts with
FileSystems(t) ==
    IF t = "convert"
    THEN { f \in [ Paths -> { Absent, JavaWarnText, JavaPlainText, PomText,
                              JsonText, NotesText } ] :
             /\ f[PomXml] \in { Absent, PomText }
             /\ f[ProjPom] \in { Absent, PomText }
             /\ f[TopJava] = JavaWarnText
             /\ f[ProjJava] \in { Absent, JavaWarnText }
             /\ f[SubJava] \in { Absent, JavaWarnText, JavaPlainText }
             /\ f[TopJson] = Absent
             /\ f[ProjJson] = JsonText
             /\ f[SubJson] = Absent
             /\ f[Notes] = NotesText }
    ELSE { f \in [ Paths -> { Absent, JavaWarnText, JsonText, NotesText } ] :
             /\ f[PomXml] = Absent
             /\ f[ProjPom] = Absent
             /\ f[TopJava] = Absent
             /\ f[ProjJava] = JavaWarnText
             /\ f[SubJava] = Absent
             /\ f[TopJson] \in { Absent, JsonText }
             /\ f[ProjJson] \in { Absent, JsonText }
             /\ f[SubJson] \in { Absent, JsonText }
             /\ f[Notes] = NotesText }

\* the arguments a tool is given
MaxArgs == 2

ArgPaths(t) ==
    IF t = "convert"
    THEN { TopJava, PomXml, ProjPom, Proj, ProjSub, Notes, Missing }
    ELSE { TopJson, ProjJson, ProjJava, Proj, Notes, Missing }

ArgLists(t) == UNION { [ 1..n -> ArgPaths(t) ] : n \in 0..MaxArgs }

basename(filepath) == filepath[Len(filepath)]

\* the text of a path: its names, with "/" between them
RECURSIVE path_str(_)
path_str(filepath) ==
    IF Len(filepath) = 1 THEN filepath[1]
    ELSE filepath[1] \o << "/" >> \o path_str(Tail(filepath))

\* print('Converted ' + filepath)
converted_line(filepath) == << "Converted " >> \o path_str(filepath)

\* filepath[-5:] == ext
EndsIn(filepath, ext) == basename(filepath)[Len(basename(filepath))] = ext

\* os.path.isfile(filepath)
isfile(f, filepath) == filepath \in DOMAIN f /\ f[filepath] # Absent

\* the files below the directory top
FilesBelow(f, top) ==
    { q \in DOMAIN f : /\ f[q] # Absent
                       /\ Len(q) > Len(top)
                       /\ SubSeq(q, 1, Len(top)) = top }

\* os.path.isdir(filepath): the directories are those that hold a file
isdir(f, filepath) == FilesBelow(f, filepath) # {}

\* os.walk(top), flattened to the files it yields, each as root + [name]: the
\* names of one directory in any order, a directory before the directories in
\* it (no directory here has two subdirectories)
WalkOrders(f, top) ==
    { w \in [ 1..Cardinality(FilesBelow(f, top)) -> FilesBelow(f, top) ] :
        /\ \A i, j \in DOMAIN w : i # j => w[i] # w[j]
        /\ \A i, j \in DOMAIN w : i < j => Len(w[i]) <= Len(w[j]) }

\* the if / elif chain of the loop over the arguments, had it taken any file
arg_branch_any_file(t, f, filepath) ==
    IF t = "convert"
    THEN IF isfile(f, filepath) THEN "java"
         ELSE IF isfile(f, filepath) /\ filepath = PomXml THEN "pom"
         ELSE IF isdir(f, filepath) THEN "dir"
         ELSE "else"
    ELSE IF isfile(f, filepath) THEN "json"
         ELSE IF isdir(f, filepath) THEN "dir"
         ELSE "else"

\* the if / elif chain of the loop over the arguments
arg_branch(t, f, filepath) ==
    IF t = "convert"
    THEN IF isfile(f, filepath) /\ EndsIn(filepath, ".java") THEN "java"
         ELSE IF isfile(f, filepath) /\ filepath = PomXml THEN "pom"
         ELSE IF isdir(f, filepath) THEN "dir"
         ELSE "else"
    ELSE IF isfile(f, filepath) /\ EndsIn(filepath, ".json") THEN "json"
         ELSE IF isdir(f, filepath) THEN "dir"
         ELSE "else"

\* warnings[path] = value: a new key goes last, an old key keeps its place
dict_set(d, key, value) ==
    IF \E i \in 1..Len(d) : d[i].key = key
    THEN [ i \in 1..Len(d) |-> IF d[i].key = key
                               THEN [ key |-> key, value |-> value ]
                               ELSE d[i] ]
    ELSE Append(d, [ key |-> key, value |-> value ])

IsWarning(w) == w # None

\* for filepath, warning_list in warnings.items(): ...
RECURSIVE report_lines(_, _)
report_lines(d, i) ==
    IF i > Len(d) THEN << >>
    ELSE LET found == SelectSeq(d[i].value, IsWarning)
         IN  (IF Len(d[i].value) = 0 \/ Len(found) = 0 THEN << >>
              ELSE << d[i].key \o << " warnings:" >> >>
                   \o [ j \in 1..Len(found) |-> << "  - ", found[j] >> ])
             \o report_lines(d, i + 1)

\* the lines printed when no argument was given
usage_lines(t) ==
    IF t = "convert"
    THEN << << "Usage: %s [<path-to-java-file> | <path-to-pom> | <path-to-directory>]+" >>,
            << "Converts files from v5.0.x API to v6.0.x API.  NOTE:  Overwrites files. This conversion is not a guaranteed fix for all issues and may generate bad code. Please review all changes before committing." >>,
            << "   <path-to-java-file>    :  relative or absolute path to java file to convert" >>,
            << "   <path-to-pom>          :  relative or absolute path to pom.xml file to convert" >>,
            << "   <path-to-directory>    :  relative or absolute path to a directory with .java or pom.xml files to convert" >> >>
    ELSE << << "Usage: %s <path-to-directory>]+" >>,
            << "Converts files from " >>,
            << "   <path-to-driver>    :  relative or absolute path to a directory with .json or pom.xml files to convert" >> >>

\* the line of the else branch
invalid_line(t, filepath) ==
    IF t = "convert"
    THEN path_str(filepath) \o << " is not a valid Java file, pom.xml, or directory." >>
    ELSE path_str(filepath) \o << " is not a valid json file or directory." >>

svars == << file, infile, contents, result, warnings, written >>

\* the value of the variables of one file while a whole invocation is looked at
FileIdle ==
    /\ file = << >>
    /\ infile = << >>
    /\ contents = << >>
    /\ result = NoMatch
    /\ warnings = << >>
    /\ written = << >>

MInit ==
    /\ tool \in { "convert", "appium" }
    /\ fs \in FileSystems(tool)
    /\ argv \in ArgLists(tool)
    /\ args_processed = 0
    /\ walk = << >>
    /\ all_warnings = << >>
    /\ stdout = << >>
    /\ pc = "arg"
    /\ FileIdle

\* for filepath in sys.argv[1:]: the argument the loop takes next
Arg == argv[args_processed + 1]

\* convert_java(filepath); the list it returns is dropped
ConvertJavaArg ==
    /\ pc = "arg" /\ args_processed < Len(argv)
    /\ arg_branch(tool, fs, Arg) = "java"
    /\ args_processed' = args_processed + 1
    /\ fs' = [ fs EXCEPT ![Arg] = convert_java_contents(@) ]
    /\ stdout' = Append(stdout, converted_line(Arg))
    /\ UNCHANGED << tool, argv, walk, all_warnings, pc >>

\* convert_pom(filepath)
ConvertPomArg ==
    /\ pc = "arg" /\ args_processed < Len(argv)
    /\ arg_branch(tool, fs, Arg) = "pom"
    /\ args_processed' = args_processed + 1
    /\ fs' = [ fs EXCEPT ![Arg] = convert_pom_contents(@) ]
    /\ stdout' = Append(stdout, converted_line(Arg))
    /\ UNCHANGED << tool, argv, walk, all_warnings, pc >>

\* update_appium_capabilities(filepath)
AppiumJsonArg ==
    /\ pc = "arg" /\ args_processed < Len(argv)
    /\ arg_branch(tool, fs, Arg) = "json"
    /\ args_processed' = args_processed + 1
    /\ LET st == update_capabilities(
                     remove_unused_options([ contents |-> fs[Arg], out |-> stdout ], 1))
       IN  fs' = [ fs EXCEPT ![Arg] = st.contents ] /\ stdout' = st.out
    /\ UNCHANGED << tool, argv, walk, all_warnings, pc >>

\* for root, dirs, files in os.walk(filepath)
DirArg ==
    /\ pc = "arg" /\ args_processed < Len(argv)
    /\ arg_branch(tool, fs, Arg) = "dir"
    /\ args_processed' = args_processed + 1
    /\ walk' \in WalkOrders(fs, Arg)
    /\ pc' = "walk"
    /\ UNCHANGED << tool, fs, argv, all_warnings, stdout >>

\* print(filepath + ' is not a valid ...')
InvalidArg ==
    /\ pc = "arg" /\ args_processed < Len(argv)
    /\ arg_branch(tool, fs, Arg) = "else"
    /\ args_processed' = args_processed + 1
    /\ stdout' = Append(stdout, invalid_line(tool, Arg))
    /\ UNCHANGED << tool, fs, argv, walk, all_warnings, pc >>

\* for path in files, in scripts/convert.py: the file is root + [path], but
\* convert_pom is given path alone, a name in the working directory; open()
\* raises FileNotFoundError when there is no such file
ConvertWalkFile ==
    /\ pc = "walk" /\ tool = "convert" /\ walk # << >>
    /\ LET joined == Head(walk)
           path == << basename(joined) >>
       IN  IF EndsIn(path, ".java")
           THEN /\ fs' = [ fs EXCEPT ![joined] = convert_java_contents(@) ]
                /\ stdout' = Append(stdout, converted_line(joined))
                /\ all_warnings' = dict_set(all_warnings, basename(joined),
                                            convert_java_warnings(fs[joined]))
                /\ walk' = Tail(walk)
                /\ pc' = pc
           ELSE IF path = PomXml
                THEN IF isfile(fs, path)
                     THEN /\ fs' = [ fs EXCEPT ![path] = convert_pom_contents(@) ]
                          /\ stdout' = Append(stdout, converted_line(path))
                          /\ walk' = Tail(walk)
                          /\ UNCHANGED << all_warnings, pc >>
                     ELSE /\ pc' = "aborted"
                          /\ UNCHANGED << fs, stdout, walk, all_warnings >>
                ELSE /\ walk' = Tail(walk)
                     /\ UNCHANGED << fs, stdout, all_warnings, pc >>
    /\ UNCHANGED << tool, argv, args_processed >>

\* for path in files, in scripts/appium-conversion.py
AppiumWalkFile ==
    /\ pc = "walk" /\ tool = "appium" /\ walk # << >>
    /\ LET joined == Head(walk)
           st == update_capabilities(
                     remove_unused_options(
                         [ contents |-> fs[joined],
                           out |-> Append(stdout, << "Processing file: " >>
                                                  \o path_str(joined)) ], 1))
       IN  IF EndsIn(<< basename(joined) >>, ".json")
           THEN fs' = [ fs EXCEPT ![joined] = st.contents ] /\ stdout' = st.out
           ELSE UNCHANGED << fs, stdout >>
    /\ walk' = Tail(walk)
    /\ UNCHANGED << tool, argv, args_processed, all_warnings, pc >>

\* os.walk has nothing more to yield
WalkDone ==
    /\ pc = "walk" /\ walk = << >>
    /\ pc' = "arg"
    /\ UNCHANGED << tool, fs, argv, args_processed, walk, all_warnings, stdout >>

\* the loop over the arguments ends
ArgsDone ==
    /\ pc = "arg" /\ args_processed = Len(argv)
    /\ pc' = IF tool = "convert" THEN "report" ELSE "usage"
    /\ UNCHANGED << tool, fs, argv, args_processed, walk, all_warnings, stdout >>

\* the loop over warnings.items() of scripts/convert.py
Report ==
    /\ pc = "report"
    /\ stdout' = stdout \o report_lines(all_warnings, 1)
    /\ pc' = "usage"
    /\ UNCHANGED << tool, fs, argv, args_processed, walk, all_warnings >>

\* if (args_processed == 0): print the usage
Usage ==
    /\ pc = "usage" /\ args_processed = 0
    /\ stdout' = stdout \o usage_lines(tool)
    /\ pc' = "done"
    /\ UNCHANGED << tool, fs, argv, args_processed, walk, all_warnings >>

Exit ==
    /\ pc = "usage" /\ args_processed # 0
    /\ pc' = "done"
    /\ UNCHANGED << tool, fs, argv, args_processed, walk, all_warnings, stdout >>

MNext ==
    \/ ConvertJavaArg
    \/ ConvertPomArg
    \/ AppiumJsonArg
    \/ DirArg
    \/ InvalidArg
    \/ ConvertWalkFile
    \/ AppiumWalkFile
    \/ WalkDone
    \/ ArgsDone
    \/ Report
    \/ Usage
    \/ Exit

SpecMain == MInit /\ [][MNext /\ UNCHANGED svars]_vars

(***************************************************************************)
(* Claims about convert_java                                               *)
(***************************************************************************)

\* one of the 14 legacy locator spellings occurs in s
HasLegacyLocator(s) ==
    \E i \in 1..Len(s) : \E k \in 1..Len(locators) :
        LocatorMatchesAt(s, i, locators[k][1])

\* the number of lines of s that are exactly the line l
CountLine(s, l) == Cardinality({ i \in 1..Len(split(s)) : split(s)[i] = l })

\* C1: a file that held a legacy locator spelling when it was read holds the
\* Strategy import line exactly once when convert_java has written it.
C1_StrategyImportOnce ==
    (pc = "return" /\ HasLegacyLocator(infile))
        => CountLine(file, StrategyImport) = 1

\* C2: the second run of convert_java on a file writes the text the first run
\* wrote.
C2_SecondRunChangesNothing ==
    Len(written) >= 2 => written[2] = written[1]

\* two lines of s are the same import line
HasDuplicateImportLine(s) ==
    \E i, j \in 1..Len(split(s)) :
        /\ i < j
        /\ IsImportLine(split(s)[i])
        /\ split(s)[i] = split(s)[j]

\* C3: the text convert_java writes has no two identical import lines.
C3_NoDuplicateImportLine ==
    pc = "return" => ~HasDuplicateImportLine(file)

\* C10: no legacy locator spelling is left when fix_locators has returned, nor
\* in the text convert_java writes.
C10_NoLegacyLocatorLeft ==
    /\ pc = "applause_config_usage" => ~HasLegacyLocator(contents)
    /\ pc = "return" => ~HasLegacyLocator(file)

(***************************************************************************)
(* Claims about update_appium_capabilities                                 *)
(***************************************************************************)

\* the number of occurrences of p in s
Count(s, p) ==
    Cardinality({ i \in 1..(Len(s) - Len(p) + 1) : SubSeq(s, i, i + Len(p) - 1) = p })

HasAllScope(cap_scope) == \E j \in 1..Len(cap_scope) : cap_scope[j] = << "all" >>

\* the file of the scenario and the file expected for it
ScenarioFile ==
    join(<< OptionPair("isStrict", "true"),
            << Q, "app", Q, ":", " ", Q, "myapp.apk", Q >> >>)

ScenarioWritten ==
    join(<< << >>, << Q, "appium:", "app", Q, ":", " ", Q, "myapp.apk", Q >> >>)

\* C7: when update_appium_capabilities has written the file, no capability
\* with the scope "all" is left with its quoted name unprefixed, every
\* occurrence of the quoted name in the file read is an occurrence of the
\* prefixed quoted name in the file written (so "appActivity" is prefixed
\* once, whatever was done for "app"), and the file of the scenario has lost
\* its isStrict pair and has "appium:app".
C7_AllScopeRenamed ==
    pc = "return" =>
        /\ \A k \in 1..Len(capabilities_to_update) :
              HasAllScope(capabilities_to_update[k][2]) =>
                /\ ~Contains(file, Quoted(capabilities_to_update[k][1]))
                /\ Count(file, QuotedAppium(capabilities_to_update[k][1]))
                     = Count(infile, Quoted(capabilities_to_update[k][1]))
                       + Count(infile, QuotedAppium(capabilities_to_update[k][1]))
        /\ infile = ScenarioFile => file = ScenarioWritten

\* a file with "app" twice and "appActivity" has been rewritten
C7_Witness ==
    /\ pc = "return"
    /\ Count(infile, Quoted(<< "app" >>)) = 2
    /\ Contains(infile, Quoted(<< "app", "Activity" >>))
    /\ Count(file, QuotedAppium(<< "app" >>)) = 2
    /\ Contains(file, QuotedAppium(<< "app", "Activity" >>))

\* some scope entry <driverType>_<driverScope> of cap_scope is met by text
ScopeMet(cap_scope, text) ==
    \E j \in 1..Len(cap_scope) :
        /\ Len(cap_scope[j]) = 2
        /\ InLower(cap_scope[j][1], text)
        /\ cap_scope[j][2] = "all" \/ InLower(cap_scope[j][2], text)

\* C8 as stated: a capability without the scope "all" whose quoted name is in
\* the file read is renamed in the file written if and only if the file read
\* meets one of its scope entries.
C8_RenamedIffScopeInFileRead ==
    pc = "return" =>
        \A k \in 1..Len(capabilities_to_update) :
            (/\ ~HasAllScope(capabilities_to_update[k][2])
             /\ Contains(infile, Quoted(capabilities_to_update[k][1])))
            => (ScopeMet(capabilities_to_update[k][2], infile)
                  <=> ~Contains(file, Quoted(capabilities_to_update[k][1])))

\* C8 as amended: the scopes are looked for in the text as it is once the
\* obsolete pairs have been removed.  A capability without the scope "all"
\* whose quoted name is in that text is renamed by the loop over the table if
\* and only if that text meets one of its scope entries; when it is renamed,
\* every occurrence is prefixed once, however many entries are met; when it is
\* not, its occurrences are left as they are.  And the body of the loop, given
\* the scope list ["android_all"], renames if and only if the lower-cased
\* text contains "android".
C8_RenamedIffScopeInContents ==
    [][ pc = "update" =>
          \A k \in 1..Len(capabilities_to_update) :
            LET capability == capabilities_to_update[k][1]
                cap_scope == capabilities_to_update[k][2]
                android == update_capability([ contents |-> contents, out |-> << >> ],
                                             capability, << << "android", "all" >> >>)
            IN  (~HasAllScope(cap_scope) /\ Contains(contents, Quoted(capability)))
                => /\ ScopeMet(cap_scope, contents) <=> ~Contains(contents', Quoted(capability))
                   /\ ScopeMet(cap_scope, contents) =>
                         Count(contents', QuotedAppium(capability))
                           = Count(contents, Quoted(capability))
                             + Count(contents, QuotedAppium(capability))
                   /\ ~ScopeMet(cap_scope, contents) =>
                         /\ Count(contents', Quoted(capability))
                              = Count(contents, Quoted(capability))
                         /\ Count(contents', QuotedAppium(capability))
                              = Count(contents, QuotedAppium(capability))
                   /\ InLower("android", contents)
                        <=> ~Contains(android.contents, Quoted(capability))
                   /\ ~InLower("android", contents) => android.contents = contents
      ]_vars

\* "deviceName" has been renamed in a file that meets mobileweb_saucelabs
\* and no other entry
C8_Witness ==
    /\ pc = "write"
    /\ Contains(infile, Quoted(<< "deviceName" >>))
    /\ InLower("mobileweb", infile) /\ InLower("saucelabs", infile)
    /\ ~InLower("native", infile)
    /\ Contains(contents, QuotedAppium(<< "deviceName" >>))
    /\ ~Contains(contents, Quoted(<< "deviceName" >>))

\* C9: the file update_appium_capabilities has written holds none of the
\* obsolete pairs, in either spacing of the colon.
C9_NoObsoletePairLeft ==
    pc = "return" =>
        \A k \in 1..Len(unused_applause_options) :
            \A j \in 1..Len(unused_applause_options[k][2]) :
                /\ ~Contains(file, OptionPair(unused_applause_options[k][1],
                                              unused_applause_options[k][2][j]))
                /\ ~Contains(file, OptionPairSpaced(unused_applause_options[k][1],
                                                    unused_applause_options[k][2][j]))

(***************************************************************************)
(* Claims about the loops over the arguments                               *)
(***************************************************************************)

\* C4: a step of scripts/convert.py that takes an argument which is a file
\* named pom.xml, or a file named pom.xml that the walk of a directory has
\* found, leaves that file with the text convert_pom makes of it; a step that
\* takes a .java file the walk has found leaves that file with the text
\* convert_java makes of it.
C4_RewrittenAtOwnLocation ==
    [][ /\ (/\ tool = "convert" /\ pc = "arg" /\ args_processed < Len(argv)
            /\ isfile(fs, Arg) /\ basename(Arg) = << "pom.xml" >>)
           => fs' = [ fs EXCEPT ![Arg] = convert_pom_contents(fs[Arg]) ]
        /\ (/\ tool = "convert" /\ pc = "walk" /\ walk # << >>
            /\ basename(Head(walk)) = << "pom.xml" >>)
           => fs' = [ fs EXCEPT ![Head(walk)] = convert_pom_contents(fs[Head(walk)]) ]
        /\ (/\ tool = "convert" /\ pc = "walk" /\ walk # << >>
            /\ EndsIn(Head(walk), ".java"))
           => fs' = [ fs EXCEPT ![Head(walk)] = convert_java_contents(fs[Head(walk)]) ]
      ]_vars

\* line is printed right before the line after
PrintedInARow(line, after) ==
    \E i \in 1..(Len(stdout) - 1) : stdout[i] = line /\ stdout[i + 1] = after

\* C5: when scripts/convert.py has ended, every Java file it has converted
\* whose text has an @Locate(...) without "using" has its warning printed
\* under the header of its file name.
C5_WarningReported ==
    (tool = "convert" /\ pc = "done") =>
        \A p \in Paths :
            (/\ \E i \in 1..Len(stdout) : stdout[i] = converted_line(p)
             /\ EndsIn(p, ".java")
             /\ check_for_sub_components(fs[p]) # None)
            => PrintedInARow(basename(p) \o << " warnings:" >>,
                             << "  - ", SubComponentWarning >>)

\* an argument that is neither a directory nor a file either tool takes
Ineligible(t, f, filepath) ==
    /\ ~isdir(f, filepath)
    /\ ~(/\ isfile(f, filepath)
         /\ IF t = "convert"
            THEN EndsIn(filepath, ".java") \/ basename(filepath) = << "pom.xml" >>
            ELSE EndsIn(filepath, ".json"))

\* C6: in either script, the step that takes an argument which is neither an
\* eligible file nor a directory prints one line, which names the argument,
\* changes no file, does not end the run, and leaves everything the handling
\* of the arguments after it depends on (the files, the warnings collected,
\* the argument list) as it was, with the loop at its next argument.
C6_InvalidArgumentSkipped ==
    [][ (pc = "arg" /\ args_processed < Len(argv) /\ Ineligible(tool, fs, Arg)) =>
          /\ fs' = fs
          /\ Len(stdout') = Len(stdout) + 1
          /\ SubSeq(stdout', 1, Len(stdout)) = stdout
          /\ SubSeq(stdout'[Len(stdout')], 1, Len(path_str(Arg))) = path_str(Arg)
          /\ pc' = "arg"
          /\ args_processed' = args_processed + 1
          /\ argv' = argv
          /\ all_warnings' = all_warnings
          /\ walk' = walk
      ]_vars

\* a run whose first argument was invalid has converted its second argument
C6_Witness ==
    /\ pc = "done"
    /\ Len(argv) = 2
    /\ Ineligible(tool, fs, argv[1])
    /\ stdout[1] = invalid_line(tool, argv[1])
    /\ \E i \in 2..Len(stdout) : stdout[i] = converted_line(argv[2])

(***************************************************************************)
(* Claims about the passes of convert_java                                 *)
(***************************************************************************)

\* the calls of the configuration manager and what they are to become
ConfigCall == << "EnvironmentConfigurationManager", ".", "get", "()" >>

ConfigInstanceCall ==
    << "EnvironmentConfigurationManager", ".", "INSTANCE", ".", "get", "()" >>

\* C11: check_for_applause_config_usage turns every
\* ApplauseEnvironmentConfigurationManager.get() of the text it is given into
\* ApplauseEnvironmentConfigurationManager.INSTANCE.get() and changes nothing
\* else, and check_for_config_usage, run after it, does the same for every
\* EnvironmentConfigurationManager.get() and leaves the calls the first pass
\* has rewritten as they are.
C11_ConfigCallsRewritten ==
    [][ /\ pc = "applause_config_usage" =>
             contents' = str_replace(contents, << "Applause" >> \o ConfigCall,
                                     << "Applause" >> \o ConfigInstanceCall)
        /\ pc = "config_usage" =>
             contents' = str_replace(contents, ConfigCall, ConfigInstanceCall)
      ]_vars

(***************************************************************************)
(* Claims about remove_sdk_helper_create                                   *)
(***************************************************************************)

\* the call SdkHelper.create(<Arg>.class) and the builder call for <Arg>
SdkCreateCall(arg) == << "SdkHelper", ".", "create(", arg, ".", "class)" >>

BuilderCall(arg) ==
    << "PageObjectBuilder.withContext(SdkHelper.getDriverContext()).forBaseComponent(",
       arg, ".", "class)", ".initialize()", ";" >>

\* C12: when remove_sdk_helper_create returns, the text has, for each <Arg>,
\* as many builder calls for <Arg> as the text it was given had calls
\* SdkHelper.create(<Arg>.class); it has no ";" doubled; and it has as many
\* calls SdkHelper.create(<Arg>.class) as there were calls without a ";".
C12_EveryCallRewritten ==
    pc = "sub_components" =>
        /\ \A arg \in { "Foo", "Bar" } :
              /\ Count(contents, BuilderCall(arg))
                   = Count(infile, SdkCreateCall(arg) \o << ";" >>)
              /\ Count(contents, SdkCreateCall(arg))
                   = Count(infile, SdkCreateCall(arg))
                     - Count(infile, SdkCreateCall(arg) \o << ";" >>)
        /\ ~Contains(contents, << ";", ";" >>)

\* the occurrences of SdkHelper.create( in s
SdkCreateOccurrences(s) == Count(s, << "SdkHelper", ".", "create(" >>)

\* the places of s where the start of the pattern, SdkHelper.create\(, matches:
\* its "." stands for any character
SdkCreateMatches(s) ==
    Cardinality({ i \in 1..(Len(s) - 2) :
                    s[i] = "SdkHelper" /\ AnyChar(s[i + 1]) /\ s[i + 2] = "create(" })

\* the builder calls in s: one is put in by each pass of the loop
BuilderCalls(s) ==
    Count(s, << "PageObjectBuilder.withContext(SdkHelper.getDriverContext()).forBaseComponent(" >>)

\* C13 as stated: every pass of the loop of remove_sdk_helper_create leaves
\* fewer occurrences of SdkHelper.create( than it found.
C13_OccurrencesDecrease ==
    [][ (pc = "sdk_while" /\ result.start # 0)
          => SdkCreateOccurrences(contents') < SdkCreateOccurrences(contents) ]_vars

\* C13 as amended: every pass of the loop leaves fewer matches of
\* SdkHelper.create\( than it found (neither the builder call nor the import
\* it puts in is one); the passes made so far and the matches still there
\* are together no more than the matches of the text given; and the loop is
\* left, whatever the text given.
C13_LoopTerminates ==
    /\ [][ (pc = "sdk_while" /\ result.start # 0)
             => SdkCreateMatches(contents') < SdkCreateMatches(contents) ]_vars
    /\ [](BuilderCalls(contents) + SdkCreateMatches(contents) <= SdkCreateMatches(infile))
    /\ (pc = "sdk_search" ~> pc = "sub_components")

\* the loop has been left after two passes, one of them for a call that has
\* another character where the name has its "."
C13_Witness ==
    /\ pc = "sub_components"
    /\ BuilderCalls(contents) = 2
    /\ SdkCreateMatches(infile) > SdkCreateOccurrences(infile)

(***************************************************************************)
(* Claims about add_import_if_not_present                                  *)
(***************************************************************************)

\* the statement the call that has returned was given
StatementAdded ==
    IF pc = "strategy_import_added" THEN StrategyImport ELSE PageObjectBuilderImport

\* some right-trimmed import line of s ends with the statement
HasImport(s, import_statement) ==
    \E i \in 1..Len(split(s)) :
        /\ IsImportLine(split(s)[i])
        /\ EndsWith(rstrip(split(s)[i]), import_statement)

\* line i of s is an import line the scan does not skip: no import line before
\* it, right-trimmed, is the same line
ScannedImport(s, i) ==
    /\ IsImportLine(split(s)[i])
    /\ ~\E j \in 1..(i - 1) :
           IsImportLine(split(s)[j]) /\ rstrip(split(s)[j]) = split(s)[i]

\* the index, from 0, of the last import line of s the scan does not skip; 1
\* when s has no import line
LastImportIndex(s) ==
    LET at == { i \in 1..Len(split(s)) : ScannedImport(s, i) }
    IN  IF at = {} THEN 1
        ELSE (CHOOSE i \in at : \A j \in at : j <= i) - 1

\* before line k of s there is a line that is not an import and has every
\* import line of s, line k aside, before it: a line after the import block
AfterImportBlock(s, k) ==
    \E j \in 1..(k - 1) :
        /\ ~IsImportLine(split(s)[j])
        /\ \A i \in 1..Len(split(s)) : (i # k /\ IsImportLine(split(s)[i])) => i < j

\* C14: when add_import_if_not_present returns.  If a right-trimmed import
\* line of the text given ends with the statement, the text returned has no
\* more lines than the text given.  Otherwise the statement is a line of the
\* text returned exactly once, at the index the last import line had in the
\* text given (index 1 when it had none), duplicates the scan skips not
\* counted, and when the text given has an import line, the statement is
\* not after a line that follows the import block.
C14_ImportInsertedAtLastImport ==
    (pc \in { "strategy_import_added", "builder_import_added" }) =>
        IF HasImport(infile, StatementAdded)
        THEN Len(split(contents)) <= Len(split(infile))
        ELSE /\ CountLine(contents, StatementAdded) = 1
             /\ LastImportIndex(infile) + 1 <= Len(split(contents))
             /\ split(contents)[LastImportIndex(infile) + 1] = StatementAdded
             /\ (\E i \in 1..Len(split(infile)) : IsImportLine(split(infile)[i]))
                  => ~AfterImportBlock(contents, LastImportIndex(infile) + 1)

(***************************************************************************)
(* Claims about convert_pom                                                *)
(***************************************************************************)

HelpersArtifact == << "<artifactId>auto-sdk-java-helpers</artifactId>" >>

\* C15: a POM that has the auto-sdk-java-helpers dependency and one
\* </dependencies> is written by convert_pom with the dependency in it once,
\* and the second run of convert_pom on a file writes the text the first run
\* wrote.
C15_HelpersDependencyOnce ==
    /\ (/\ pc = "return"
        /\ Count(infile, HelpersArtifact) = 1
        /\ Count(infile, << "</dependencies>" >>) = 1)
       => Count(file, HelpersArtifact) = 1
    /\ Len(written) = 2 => written[2] = written[1]

(***************************************************************************)
(* Claims about a second run of update_appium_capabilities                 *)
(***************************************************************************)

\* C16: the second run of update_appium_capabilities on a file writes the
\* text the first run wrote, and no text it writes has a name with the
\* prefix twice.
C16_SecondRunWritesTheSame ==
    /\ Len(written) = 2 => written[2] = written[1]
    /\ \A k \in 1..Len(written) : ~Contains(written[k], << "appium:", "appium:" >>)

====
